---- MODULE Spec2Model ----
(***************************************************************************)
(* The impersonation connector factory of rquest:                          *)
(* BoringTlsConnector::create_connector (src/src/impersonate/mod.rs), the  *)
(* lazily initialised session cache it shares between the connectors of    *)
(* one wrapper, the per-connection callback it installs, and the Cronet    *)
(* profile's builder function (src/src/impersonate/chrome/cronet.rs).      *)
(*                                                                         *)
(* A create_connector call is an async fn: its body runs in steps, several *)
(* calls on the same wrapper interleave (multi-threaded runtime), and the  *)
(* only place where a call can be pending (and so be dropped by its        *)
(* caller) is the wait of OnceCell::get_or_init on the cell's semaphore.   *)
(***************************************************************************)
EXTENDS Integers, Sequences, FiniteSets, TLC

(***************************************************************************)
(* Bounds of the model.                                                    *)
(***************************************************************************)
\* create_connector calls that can be in flight on the wrapper at once
NumCalls == 2
\* connections made through one connector
MaxConns == 2

\* BoringTlsConnector values (wrappers and their clones) in existence
MaxHandles == 3

Calls == 1..NumCalls

(***************************************************************************)
(* Program constants.                                                      *)
(***************************************************************************)
DEFAULT_SESSION_CACHE_CAPACITY == 8

(***************************************************************************)
(* Profiles.  The ten variants named by create_connector's matches! are    *)
(* from the source; the enum's other variants and the family of each       *)
(* variant live in profile.rs and are represented by one variant of each   *)
(* remaining (family, allow-listed) class.                                 *)
(***************************************************************************)
Impersonate ==
    { "Chrome100", "Chrome116", "Chrome117", "Chrome120", "Chrome123",
      "Chrome124", "Chrome126", "Chrome127", "Cronet",
      "Edge101", "Edge122", "Edge127", "Safari17_5", "OkHttp5" }

\* Impersonate::profile(): the family of a profile
profile(impersonate) ==
    CASE impersonate \in { "Chrome100", "Chrome116", "Chrome117", "Chrome120",
                           "Chrome123", "Chrome124", "Chrome126", "Chrome127",
                           "Cronet" } -> "Chrome"
      [] impersonate \in { "Edge101", "Edge122", "Edge127" } -> "Edge"
      [] impersonate = "Safari17_5" -> "Safari"
      [] OTHER -> "OkHttp"

\* struct ImpersonateContext: every value of the type
ImpersonateContext ==
    [ impersonate : Impersonate,
      enable_ech_grease : BOOLEAN,
      permute_extensions : BOOLEAN,
      certs_verification : BOOLEAN,
      pre_shared_key : BOOLEAN,
      h2 : BOOLEAN ]

\* the contexts of the calls that race on one wrapper: a profile that
\* requires PSK, and one that does not
RacingContexts ==
    { context \in ImpersonateContext :
        /\ context.impersonate \in { "Cronet", "OkHttp5" }
        /\ context.enable_ech_grease = FALSE
        /\ context.permute_extensions = TRUE
        /\ context.certs_verification = TRUE
        /\ context.pre_shared_key = FALSE
        /\ context.h2 = TRUE }

\* no context (a call slot that is not in use)
NoContext ==
    [ impersonate |-> "none", enable_ech_grease |-> FALSE,
      permute_extensions |-> FALSE, certs_verification |-> FALSE,
      pre_shared_key |-> FALSE, h2 |-> FALSE ]

\* ErrorStack values the TLS engine can answer with
Errors == { "E1", "E2" }
NoError == "none"

(***************************************************************************)
(* The SslConnectorBuilder under construction.                             *)
(***************************************************************************)
NoBuilder ==
    [ cipher_list |-> FALSE, curves |-> FALSE, alpn |-> << >>, verify |-> "unset" ]

\* ChromeExtension::builder(): a fresh, unconfigured builder
FreshBuilder ==
    [ cipher_list |-> FALSE, curves |-> FALSE, alpn |-> << >>, verify |-> "PEER" ]

\* SslExtension::configure_alpn_protos
configure_alpn_protos(b, h2) ==
    [ b EXCEPT !.alpn = IF h2 THEN << "h2", "http/1.1" >> ELSE << "http/1.1" >> ]

\* SslExtension::configure_cert_verification
configure_cert_verification(b, certs_verification) ==
    [ b EXCEPT !.verify = IF certs_verification THEN "PEER" ELSE "NONE" ]

\* a bug: the allow-list taken to be the Chrome and Edge families
psk_extension_by_family(context) ==
    profile(context.impersonate) \in { "Chrome", "Edge" }

\* the PSK allow-list test of create_connector
psk_extension(context) ==
    context.impersonate \in
        { "Chrome116", "Chrome117", "Chrome120", "Chrome123", "Chrome124",
          "Chrome126", "Chrome127", "Cronet", "Edge122", "Edge127" }

\* a bug: the explicit flag is not consulted
UseSessionCache_list_only(context) ==
    psk_extension(context)

\* the condition of `if psk_extension || context.pre_shared_key`
UseSessionCache(context) ==
    psk_extension(context) \/ context.pre_shared_key

(***************************************************************************)
(* Connectors and per-connection configuration objects.                    *)
(***************************************************************************)
\* the certificates a server can present in the handshake
ServerCertificates == { "trusted", "self_signed", "invalid" }

\* the handshake of a connection made with builder b goes on with the
\* server's certificate: the chain is verified in mode PEER only
HandshakeAccepts(b, certificate) ==
    b.verify = "NONE" \/ certificate = "trusted"

NoConnector ==
    [ ssl |-> NoBuilder, resumption |-> FALSE, session_cache |-> 0,
      session_cache_capacity |-> 0, callback |-> NoContext ]

NoRet == [ tag |-> "none", err |-> NoError, http |-> NoConnector ]

\* a ConnectConfiguration as the transport layer creates it for a connection
FreshConf ==
    [ calls |-> << >>, permute_extensions |-> "unset",
      enable_ech_grease |-> "unset", application_settings |-> "unset" ]

(***************************************************************************)
(* The Cronet profile's settings: get_settings (cronet.rs).  An Option is  *)
(* a sequence of length at most one: None is << >>, Some(v) is << v >>, so *)
(* a field that is not set differs from one that is set to zero.  A        *)
(* HeaderMap is a set of << name, value >> pairs, one pair per name.       *)
(***************************************************************************)
\* OnceCell::new(): no value, one permit, not closed
FreshCell == [ value |-> 0, permits |-> 1, closed |-> FALSE ]

\* a bug: every wrapper refers to one process-wide cell
New_static_cell(builder_fn, arc) ==
    [ builder |-> builder_fn, session |-> 1 ]

\* BoringTlsConnector::new(builder): `arc` is the Arc allocated for the
\* new OnceCell
New(builder_fn, arc) ==
    [ builder |-> builder_fn, session |-> arc ]

\* fn create_headers: insert replaces the value of ACCEPT_ENCODING
create_headers(headers) ==
    { h \in headers : h[1] # "accept-encoding" }
        \cup { << "accept-encoding", "gzip, deflate, br, zstd" >> }

\* a bug: no limit of concurrent streams is written as a limit of zero
get_settings_explicit_zero(headers, arc) ==
    [ tls_connector |-> New("cronet", arc),
      http2 |-> [ initial_stream_window_size |-> << 6291456 >>,
                  initial_connection_window_size |-> << 15728640 >>,
                  max_concurrent_streams |-> << 0 >>,
                  max_header_list_size |-> << 262144 >>,
                  header_table_size |-> << 65536 >>,
                  enable_push |-> << FALSE >> ],
      headers |-> create_headers(headers),
      gzip |-> TRUE,
      brotli |-> TRUE ]

\* fn get_settings(headers) -> ImpersonateSettings
get_settings(headers, arc) ==
    [ tls_connector |-> New("cronet", arc),
      http2 |-> [ initial_stream_window_size |-> << 6291456 >>,
                  initial_connection_window_size |-> << 15728640 >>,
                  max_concurrent_streams |-> << >>,
                  max_header_list_size |-> << 262144 >>,
                  header_table_size |-> << 65536 >>,
                  enable_push |-> << FALSE >> ],
      headers |-> create_headers(headers),
      gzip |-> TRUE,
      brotli |-> TRUE ]

\* the fields of an Http2Settings record
Http2Fields ==
    { "initial_stream_window_size", "initial_connection_window_size",
      "max_concurrent_streams", "max_header_list_size", "header_table_size",
      "enable_push" }

\* the SETTINGS parameters written when a session is opened with the
\* record: one for each field that is set
SettingsFrame(http2) ==
    { << f, http2[f][1] >> : f \in { g \in Http2Fields : http2[g] # << >> } }

\* the headers get_settings is called with
HeaderInputs ==
    { { << "user-agent", "ua" >> }, { << "accept-encoding", "identity" >> } }

VARIABLES
    pc,            \* pc[c]: where call c is in create_connector
    ctx,           \* ctx[c]: the context call c was given
    steps,         \* steps[c]: the operations call c has performed so far
    builder,       \* builder[c]: the call's SslConnectorBuilder
    value,         \* value[c]: the Session an initializer run by c produced
    session,       \* session[c]: the call's local `session`
    raised,        \* raised[c]: the error a step of call c answered with
    ret,           \* ret[c]: what the call returned
    conns,         \* conns[c]: the connections made through c's connector
    cell,          \* OnceCell value: 0 (not set) or a cache instance
    sem_permits,   \* OnceCell semaphore: permits available
    sem_closed,    \* OnceCell semaphore: closed
    waiters,       \* OnceCell semaphore: calls queued on it
    caches,        \* the SessionCache instances created, in order
    pskRequested,  \* history: some call so far asked for resumption
    handles,       \* the BoringTlsConnector values in existence
    cells,         \* cells[i]: the OnceCell behind Arc i, while no call uses it
    focus,         \* the Arc of the OnceCell the calls in flight use, whose
                   \* state is cell, sem_permits, sem_closed and waiters
    via,           \* via[c]: the handle call c was made through (0: none)
    settingsLog    \* the ImpersonateSettings get_settings has returned

vars ==
    << pc, ctx, steps, builder, value, session, raised, ret, conns,
       cell, sem_permits, sem_closed, waiters, caches, pskRequested,
       handles, cells, focus, via, settingsLog >>

callVars == << pc, ctx, steps, builder, value, session, raised, ret, conns >>
cellVars == << cell, sem_permits, sem_closed, waiters, caches >>
wrapVars == << handles, cells, focus, via, settingsLog >>

\* BoringTlsConnector::new: a fresh OnceCell, no call in flight
Init ==
    /\ pc = [c \in Calls |-> "idle"]
    /\ ctx = [c \in Calls |-> NoContext]
    /\ steps = [c \in Calls |-> << >>]
    /\ builder = [c \in Calls |-> NoBuilder]
    /\ value = [c \in Calls |-> 0]
    /\ session = [c \in Calls |-> 0]
    /\ raised = [c \in Calls |-> NoError]
    /\ ret = [c \in Calls |-> NoRet]
    /\ conns = [c \in Calls |-> << >>]
    /\ cell = 0
    /\ sem_permits = 1
    /\ sem_closed = FALSE
    /\ waiters = {}
    /\ caches = << >>
    /\ pskRequested = FALSE
    /\ settingsLog = << get_settings({}, 1) >>
    /\ handles = << get_settings({}, 1).tls_connector >>
    /\ cells = << FreshCell >>
    /\ focus = 1
    /\ via = [c \in Calls |-> 0]


(***************************************************************************)
(* The caller.                                                             *)
(***************************************************************************)
\* the profiles the specification lists as requiring PSK (history only)
PskAllowList ==
    { "Chrome116", "Chrome117", "Chrome120", "Chrome123", "Chrome124",
      "Chrome126", "Chrome127", "Cronet", "Edge122", "Edge127" }

\* a caller creates the future of handles[h].create_connector(context,
\* http).  The calls in flight are calls on one OnceCell, the one `focus`
\* names; a call on another cell is made when no call is in flight, and
\* the state of the two cells is exchanged.
InvokeOn(c, h, context) ==
    /\ pc[c] = "idle"
    /\ h \in 1..Len(handles)
    /\ pc' = [pc EXCEPT ![c] = "start"]
    /\ ctx' = [ctx EXCEPT ![c] = context]
    /\ via' = [via EXCEPT ![c] = h]
    /\ pskRequested' =
          (pskRequested \/ context.impersonate \in PskAllowList
                        \/ context.pre_shared_key)
    /\ LET arc == handles[h].session
       IN IF arc = focus
          THEN UNCHANGED << cell, sem_permits, sem_closed, waiters, cells, focus >>
          ELSE /\ \A d \in Calls : pc[d] = "idle"
               /\ cells' = [cells EXCEPT ![focus] =
                     [ value |-> cell, permits |-> sem_permits,
                       closed |-> sem_closed ]]
               /\ cell' = cells[arc].value
               /\ sem_permits' = cells[arc].permits
               /\ sem_closed' = cells[arc].closed
               /\ waiters' = {}
               /\ focus' = arc
    /\ UNCHANGED << steps, builder, value, session, raised, ret, conns >>
    /\ UNCHANGED << caches, handles, settingsLog >>

\* a call through the wrapper itself
Invoke(c, context) == InvokeOn(c, 1, context)

\* a bug: the clone gets a cell of its own
CloneConnector_own_cell(h) ==
    /\ h \in 1..Len(handles)
    /\ Len(handles) < MaxHandles
    /\ handles' = Append(handles, New(handles[h].builder, Len(cells) + 1))
    /\ cells' = Append(cells, FreshCell)
    /\ UNCHANGED << focus, via, settingsLog, pskRequested >>
    /\ UNCHANGED callVars
    /\ UNCHANGED cellVars

\* #[derive(Clone)] on BoringTlsConnector: both Arcs are cloned, so the
\* clone refers to the builder function and the OnceCell of handles[h]
CloneConnector(h) ==
    /\ h \in 1..Len(handles)
    /\ Len(handles) < MaxHandles
    /\ handles' = Append(handles, handles[h])
    /\ UNCHANGED << cells, focus, via, settingsLog, pskRequested >>
    /\ UNCHANGED callVars
    /\ UNCHANGED cellVars

\* the profile's get_settings is called: a wrapper of its own is built by
\* BoringTlsConnector::new, with a new OnceCell
GetSettings(headers) ==
    /\ Len(handles) < MaxHandles
    /\ LET r == get_settings(headers, Len(cells) + 1)
       IN /\ settingsLog' = Append(settingsLog, r)
          /\ handles' = Append(handles, r.tls_connector)
    /\ cells' = Append(cells, FreshCell)
    /\ UNCHANGED << focus, via, pskRequested >>
    /\ UNCHANGED callVars
    /\ UNCHANGED cellVars

\* the call fails with error e: `?` returns Err(e) to the caller unchanged
Propagate(e) == e

Fail(c, e) ==
    /\ pc' = [pc EXCEPT ![c] = "failed"]
    /\ raised' = [raised EXCEPT ![c] = e]
    /\ ret' = [ret EXCEPT ![c] = [ tag |-> "err", err |-> Propagate(e),
                                   http |-> NoConnector ]]

(***************************************************************************)
(* Step 1: (self.builder)()?  The builder function of the Cronet profile:  *)
(* ChromeExtension::builder()?.configure_cipher_list(..)?                  *)
(*                            .configure_chrome_new_curves()               *)
(* Each of the three operations can answer with an ErrorStack.             *)
(***************************************************************************)
\* a bug: the curves are configured before the cipher list
BuilderStages_swapped == << "builder", "curves", "cipher_list" >>

BuilderStages == << "builder", "cipher_list", "curves" >>

\* the operations performed when the builder function stops after n stages
StagesUpTo(n) == SubSeq(BuilderStages, 1, n)

\* a bug: a failed builder function is invoked once more
BuilderFn_retry(c, errs) ==
    /\ pc[c] = "start"
    /\ \/ /\ steps' = [steps EXCEPT ![c] = @ \o BuilderStages]
          /\ builder' = [builder EXCEPT ![c] =
                [FreshBuilder EXCEPT !.cipher_list = TRUE, !.curves = TRUE]]
          /\ pc' = [pc EXCEPT ![c] = "alpn"]
          /\ UNCHANGED << raised, ret >>
       \/ \E n \in 1..Len(BuilderStages), e \in errs :
             /\ steps' = [steps EXCEPT ![c] = @ \o StagesUpTo(n)]
             /\ IF steps[c] = << >>
                   THEN UNCHANGED << pc, raised, ret >>
                   ELSE Fail(c, e)
             /\ UNCHANGED builder
    /\ UNCHANGED << ctx, value, session, conns, pskRequested, wrapVars >>
    /\ UNCHANGED cellVars

BuilderFn(c, errs) ==
    /\ pc[c] = "start"
    /\ \/ /\ steps' = [steps EXCEPT ![c] = @ \o BuilderStages]
          /\ builder' = [builder EXCEPT ![c] =
                [FreshBuilder EXCEPT !.cipher_list = TRUE, !.curves = TRUE]]
          /\ pc' = [pc EXCEPT ![c] = "alpn"]
          /\ UNCHANGED << raised, ret >>
       \/ \E n \in 1..Len(BuilderStages), e \in errs :
             /\ steps' = [steps EXCEPT ![c] = @ \o StagesUpTo(n)]
             /\ Fail(c, e)
             /\ UNCHANGED builder
    /\ UNCHANGED << ctx, value, session, conns, pskRequested, wrapVars >>
    /\ UNCHANGED cellVars

(***************************************************************************)
(* Step 2: .configure_alpn_protos(context.h2)?                             *)
(*         .configure_cert_verification(context.certs_verification)?       *)
(***************************************************************************)
\* a bug: the wrong flag of the context is passed
ConfigureAlpn_wrong_flag(c, errs) ==
    /\ pc[c] = "alpn"
    /\ steps' = [steps EXCEPT ![c] = Append(@, "alpn")]
    /\ \/ /\ builder' = [builder EXCEPT ![c] =
                configure_alpn_protos(@, ctx[c].certs_verification)]
          /\ pc' = [pc EXCEPT ![c] = "cert"]
          /\ UNCHANGED << raised, ret >>
       \/ \E e \in errs :
             /\ Fail(c, e)
             /\ UNCHANGED builder
    /\ UNCHANGED << ctx, value, session, conns, pskRequested, wrapVars >>
    /\ UNCHANGED cellVars

\* a bug: the session cache is created before the pipeline has succeeded
ConfigureAlpn_eager_cache(c, errs) ==
    /\ pc[c] = "alpn"
    /\ steps' = [steps EXCEPT ![c] = Append(@, "alpn")]
    /\ \/ /\ builder' = [builder EXCEPT ![c] = configure_alpn_protos(@, ctx[c].h2)]
          /\ pc' = [pc EXCEPT ![c] = "cert"]
          /\ UNCHANGED << raised, ret >>
       \/ \E e \in errs :
             /\ Fail(c, e)
             /\ UNCHANGED builder
    /\ IF cell = 0 /\ sem_permits > 0
          THEN /\ caches' = Append(caches, [ capacity |-> DEFAULT_SESSION_CACHE_CAPACITY ])
               /\ cell' = Len(caches) + 1
               /\ sem_closed' = TRUE
               /\ UNCHANGED << sem_permits, waiters >>
          ELSE UNCHANGED cellVars
    /\ UNCHANGED << ctx, value, session, conns, pskRequested, wrapVars >>

ConfigureAlpn(c, errs) ==
    /\ pc[c] = "alpn"
    /\ steps' = [steps EXCEPT ![c] = Append(@, "alpn")]
    /\ \/ /\ builder' = [builder EXCEPT ![c] = configure_alpn_protos(@, ctx[c].h2)]
          /\ pc' = [pc EXCEPT ![c] = "cert"]
          /\ UNCHANGED << raised, ret >>
       \/ \E e \in errs :
             /\ Fail(c, e)
             /\ UNCHANGED builder
    /\ UNCHANGED << ctx, value, session, conns, pskRequested, wrapVars >>
    /\ UNCHANGED cellVars

\* a bug: the wrong flag of the context is passed
ConfigureCert_wrong_flag(c, errs) ==
    /\ pc[c] = "cert"
    /\ steps' = [steps EXCEPT ![c] = Append(@, "cert_verification")]
    /\ \/ /\ builder' = [builder EXCEPT ![c] =
                configure_cert_verification(@, ctx[c].h2)]
          /\ pc' = [pc EXCEPT ![c] = "gate"]
          /\ UNCHANGED << raised, ret >>
       \/ \E e \in errs :
             /\ Fail(c, e)
             /\ UNCHANGED builder
    /\ UNCHANGED << ctx, value, session, conns, pskRequested, wrapVars >>
    /\ UNCHANGED cellVars

ConfigureCert(c, errs) ==
    /\ pc[c] = "cert"
    /\ steps' = [steps EXCEPT ![c] = Append(@, "cert_verification")]
    /\ \/ /\ builder' = [builder EXCEPT ![c] =
                configure_cert_verification(@, ctx[c].certs_verification)]
          /\ pc' = [pc EXCEPT ![c] = "gate"]
          /\ UNCHANGED << raised, ret >>
       \/ \E e \in errs :
             /\ Fail(c, e)
             /\ UNCHANGED builder
    /\ UNCHANGED << ctx, value, session, conns, pskRequested, wrapVars >>
    /\ UNCHANGED cellVars

(***************************************************************************)
(* Step 3: the gating policy.                                              *)
(***************************************************************************)
\* a bug: every call obtains the session cache, gated or not
Gate_always_cache(c) ==
    /\ pc[c] = "gate"
    /\ steps' = [steps EXCEPT ![c] = Append(@, "gate")]
    /\ pc' = [pc EXCEPT ![c] = "get_or_init"]
    /\ UNCHANGED << ctx, builder, value, session, raised, ret, conns, pskRequested, wrapVars >>
    /\ UNCHANGED cellVars

Gate(c) ==
    /\ pc[c] = "gate"
    /\ steps' = [steps EXCEPT ![c] = Append(@, "gate")]
    /\ pc' = [pc EXCEPT ![c] =
          IF UseSessionCache(ctx[c]) THEN "get_or_init" ELSE "plain"]
    /\ UNCHANGED << ctx, builder, value, session, raised, ret, conns, pskRequested, wrapVars >>
    /\ UNCHANGED cellVars

(***************************************************************************)
(* self.session.get_or_init(|| async { Session::new(..) }).await.clone()   *)
(*                                                                         *)
(* tokio's OnceCell: a value slot, and a semaphore of one permit.          *)
(* get_or_init returns the value when it is set; otherwise it acquires the *)
(* semaphore: the call that gets the permit runs the initializer and       *)
(* set_value stores the value and closes the semaphore, which wakes every  *)
(* queued call with "closed"; a call that finds the semaphore closed reads *)
(* the value.  The initializer here has no await in it, so the call that   *)
(* holds the permit is never pending.                                      *)
(***************************************************************************)
\* `if self.initialized()`
CheckInitialized(c) ==
    /\ pc[c] = "get_or_init"
    /\ steps' = [steps EXCEPT ![c] = Append(@, "get_or_init")]
    /\ IF cell # 0
          THEN /\ session' = [session EXCEPT ![c] = cell]
               /\ pc' = [pc EXCEPT ![c] = "have"]
          ELSE /\ pc' = [pc EXCEPT ![c] = "acquire"]
               /\ UNCHANGED session
    /\ UNCHANGED << ctx, builder, value, raised, ret, conns, pskRequested, wrapVars >>
    /\ UNCHANGED cellVars

\* a bug: check-then-create, every call that saw no value initializes
Acquire_unguarded(c) ==
    /\ pc[c] = "acquire"
    /\ pc' = [pc EXCEPT ![c] = "init"]
    /\ UNCHANGED << ctx, steps, builder, value, session, raised, ret, conns, pskRequested, wrapVars >>
    /\ UNCHANGED cellVars

\* `self.semaphore.acquire().await`, first poll
Acquire(c) ==
    /\ pc[c] = "acquire"
    /\ IF sem_closed
          THEN \* Err(_): the value has been set meanwhile
               /\ session' = [session EXCEPT ![c] = cell]
               /\ pc' = [pc EXCEPT ![c] = "have"]
               /\ UNCHANGED << sem_permits, waiters >>
          ELSE IF sem_permits > 0
          THEN \* Ok(permit)
               /\ sem_permits' = sem_permits - 1
               /\ pc' = [pc EXCEPT ![c] = "init"]
               /\ UNCHANGED << session, waiters >>
          ELSE \* Pending: queued on the semaphore
               /\ waiters' = waiters \cup {c}
               /\ pc' = [pc EXCEPT ![c] = "waiting"]
               /\ UNCHANGED << session, sem_permits >>
    /\ UNCHANGED << ctx, steps, builder, value, raised, ret, conns, pskRequested, wrapVars >>
    /\ UNCHANGED << cell, sem_closed, caches >>

\* the initializer: Session::new(Mutex::new(SessionCache::with_capacity(8)))
RunInitializer(c) ==
    /\ pc[c] = "init"
    /\ caches' = Append(caches, [ capacity |-> DEFAULT_SESSION_CACHE_CAPACITY ])
    /\ value' = [value EXCEPT ![c] = Len(caches) + 1]
    /\ pc' = [pc EXCEPT ![c] = "set"]
    /\ UNCHANGED << ctx, steps, builder, session, raised, ret, conns, pskRequested, wrapVars >>
    /\ UNCHANGED << cell, sem_permits, sem_closed, waiters >>

\* a bug: the value is stored but the semaphore is not closed, so the
\* queued calls are not woken
SetValue_no_close(c) ==
    /\ pc[c] = "set"
    /\ cell' = value[c]
    /\ session' = [session EXCEPT ![c] = value[c]]
    /\ pc' = [pc EXCEPT ![c] = "have"]
    /\ UNCHANGED << ctx, steps, builder, value, raised, ret, conns, pskRequested, wrapVars >>
    /\ UNCHANGED << sem_permits, sem_closed, waiters, caches >>

\* set_value(value, permit): store, close the semaphore, forget the permit
SetValue(c) ==
    /\ pc[c] = "set"
    /\ cell' = value[c]
    /\ sem_closed' = TRUE
    /\ waiters' = {}
    /\ session' = [session EXCEPT ![c] = value[c]]
    /\ pc' = [pc EXCEPT ![c] = "have"]
    /\ UNCHANGED << ctx, steps, builder, value, raised, ret, conns, pskRequested, wrapVars >>
    /\ UNCHANGED << sem_permits, caches >>

\* a queued call, woken by the close: Err(_), read the value
Wake(c) ==
    /\ pc[c] = "waiting"
    /\ sem_closed
    /\ session' = [session EXCEPT ![c] = cell]
    /\ pc' = [pc EXCEPT ![c] = "have"]
    /\ UNCHANGED << ctx, steps, builder, value, raised, ret, conns, pskRequested, wrapVars >>
    /\ UNCHANGED cellVars

(***************************************************************************)
(* HttpsConnector::with_connector_and_settings(..)? and                    *)
(* HttpsConnector::with_connector(..)?: both return a Result, and the `?`  *)
(* returns its error to the caller.                                        *)
(***************************************************************************)
\* HttpsLayerSettings::builder().session_cache_capacity(8).session_cache(session)
HttpsLayerSettings(s) ==
    [ session_cache_capacity |-> DEFAULT_SESSION_CACHE_CAPACITY,
      session_cache |-> s ]

\* the connector with_connector_and_settings builds
ConnectorWithSettings(b, settings) ==
    [ ssl |-> b, resumption |-> TRUE,
      session_cache |-> settings.session_cache,
      session_cache_capacity |-> settings.session_cache_capacity,
      callback |-> NoContext ]

\* the connector with_connector builds
ConnectorPlain(b) ==
    [ ssl |-> b, resumption |-> FALSE, session_cache |-> 0,
      session_cache_capacity |-> 0, callback |-> NoContext ]

WithConnectorAndSettings(c, errs) ==
    /\ pc[c] = "have"
    /\ steps' = [steps EXCEPT ![c] = Append(@, "with_connector_and_settings")]
    /\ \/ /\ ret' = [ret EXCEPT ![c] =
                [ tag |-> "building", err |-> NoError,
                  http |-> ConnectorWithSettings(builder[c],
                                                 HttpsLayerSettings(session[c])) ]]
          /\ pc' = [pc EXCEPT ![c] = "callback"]
          /\ UNCHANGED raised
       \/ \E e \in errs : Fail(c, e)
    /\ UNCHANGED << ctx, builder, value, session, conns, pskRequested, wrapVars >>
    /\ UNCHANGED cellVars

WithConnector(c, errs) ==
    /\ pc[c] = "plain"
    /\ steps' = [steps EXCEPT ![c] = Append(@, "with_connector")]
    /\ \/ /\ ret' = [ret EXCEPT ![c] =
                [ tag |-> "building", err |-> NoError,
                  http |-> ConnectorPlain(builder[c]) ]]
          /\ pc' = [pc EXCEPT ![c] = "callback"]
          /\ UNCHANGED raised
       \/ \E e \in errs : Fail(c, e)
    /\ UNCHANGED << ctx, builder, value, session, conns, pskRequested, wrapVars >>
    /\ UNCHANGED cellVars

(***************************************************************************)
(* Step 4: let context = context.clone(); http.set_callback(..); Ok(http)  *)
(***************************************************************************)
SetCallback_fallible(c) ==
    /\ pc[c] = "callback"
    /\ steps' = [steps EXCEPT ![c] = Append(@, "set_callback")]
    /\ \E e \in Errors : Fail(c, e)
    /\ UNCHANGED << ctx, builder, value, session, conns, pskRequested, wrapVars >>
    /\ UNCHANGED cellVars

\* a bug: the callback reads a context kept for the wrapper (that of call
\* slot 1), not a copy of the call's own
SetCallback_shared_context(c) ==
    /\ pc[c] = "callback"
    /\ steps' = [steps EXCEPT ![c] = Append(@, "set_callback")]
    /\ ret' = [ret EXCEPT ![c] =
          [ tag |-> "ok", err |-> NoError,
            http |-> [ret[c].http EXCEPT !.callback = ctx[1]] ]]
    /\ pc' = [pc EXCEPT ![c] = "done"]
    /\ UNCHANGED << ctx, builder, value, session, raised, conns, pskRequested, wrapVars >>
    /\ UNCHANGED cellVars

SetCallback(c) ==
    /\ pc[c] = "callback"
    /\ steps' = [steps EXCEPT ![c] = Append(@, "set_callback")]
    /\ ret' = [ret EXCEPT ![c] =
          [ tag |-> "ok", err |-> NoError,
            http |-> [ret[c].http EXCEPT !.callback = ctx[c]] ]]
    /\ pc' = [pc EXCEPT ![c] = "done"]
    /\ UNCHANGED << ctx, builder, value, session, raised, conns, pskRequested, wrapVars >>
    /\ UNCHANGED cellVars

(***************************************************************************)
(* The caller drops the future (cancellation).  A future can be dropped    *)
(* only where it is not running: before its first poll, or pending on the  *)
(* semaphore, where Acquire's drop takes it off the queue.                 *)
(***************************************************************************)
Cancel_leaves_waiter(c) ==
    /\ pc[c] \in { "start", "waiting" }
    /\ pc' = [pc EXCEPT ![c] = "cancelled"]
    /\ UNCHANGED << ctx, steps, builder, value, session, raised, ret, conns, pskRequested, wrapVars >>
    /\ UNCHANGED cellVars

Cancel(c) ==
    /\ pc[c] \in { "start", "waiting" }
    /\ pc' = [pc EXCEPT ![c] = "cancelled"]
    /\ waiters' = waiters \ {c}
    /\ UNCHANGED << ctx, steps, builder, value, session, raised, ret, conns, pskRequested, wrapVars >>
    /\ UNCHANGED << cell, sem_permits, sem_closed, caches >>

\* the caller is done with the call's result: the slot is free again
Release(c) ==
    /\ pc[c] \in { "done", "failed", "cancelled" }
    /\ pc' = [pc EXCEPT ![c] = "idle"]
    /\ ctx' = [ctx EXCEPT ![c] = NoContext]
    /\ steps' = [steps EXCEPT ![c] = << >>]
    /\ builder' = [builder EXCEPT ![c] = NoBuilder]
    /\ value' = [value EXCEPT ![c] = 0]
    /\ session' = [session EXCEPT ![c] = 0]
    /\ raised' = [raised EXCEPT ![c] = NoError]
    /\ ret' = [ret EXCEPT ![c] = NoRet]
    /\ conns' = [conns EXCEPT ![c] = << >>]
    /\ via' = [via EXCEPT ![c] = 0]
    /\ UNCHANGED << pskRequested, handles, cells, focus, settingsLog >>
    /\ UNCHANGED cellVars

(***************************************************************************)
(* Per-connection finalization.  The transport layer creates the           *)
(* connection's ConnectConfiguration, runs the connector's callback on it, *)
(* and starts the handshake if the callback answered Ok.  `cannot` is the  *)
(* set of finalization steps the engine cannot apply on this connection.   *)
(***************************************************************************)
FinalSteps == { "permute_extensions", "enable_ech_grease", "application_settings" }

\* a boolean argument as a setting of the configuration object, which also
\* has the value "unset"
Setting(enable) == IF enable THEN "on" ELSE "off"

\* SslConnectExtension::configure_permute_extensions
configure_permute_extensions(conf, enable, cannot) ==
    [ conf EXCEPT
        !.calls = Append(@, << "permute_extensions", Setting(enable) >>),
        !.permute_extensions =
            IF "permute_extensions" \in cannot THEN @ ELSE Setting(enable) ]

\* SslConnectExtension::configure_enable_ech_grease
configure_enable_ech_grease(conf, enable, cannot) ==
    [ conf EXCEPT
        !.calls = Append(@, << "enable_ech_grease", Setting(enable) >>),
        !.enable_ech_grease =
            IF "enable_ech_grease" \in cannot THEN @ ELSE Setting(enable) ]

\* SslConnectExtension::configure_add_application_settings
configure_add_application_settings(conf, h2, cannot) ==
    [ conf EXCEPT
        !.calls = Append(@, << "application_settings", Setting(h2) >>),
        !.application_settings =
            IF "application_settings" \in cannot THEN @ ELSE Setting(h2) ]

\* a bug: the family of the profile is not consulted
configure_ssl_context_any_family(conf, context, cannot) ==
    configure_add_application_settings(
        configure_enable_ech_grease(
            configure_permute_extensions(conf, context.permute_extensions, cannot),
            context.enable_ech_grease, cannot),
        context.h2, cannot)

\* fn configure_ssl_context(conf, ctx)
configure_ssl_context(conf, context, cannot) ==
    IF profile(context.impersonate) \in { "Chrome", "Edge" }
    THEN configure_add_application_settings(
             configure_enable_ech_grease(
                 configure_permute_extensions(conf, context.permute_extensions, cannot),
                 context.enable_ech_grease, cannot),
             context.h2, cannot)
    ELSE conf

\* a bug: the callback reports a step the engine could not apply
Callback_strict(conf, context, cannot) ==
    [ conf |-> configure_ssl_context(conf, context, cannot),
      result |-> IF cannot = {} THEN "Ok" ELSE "Err" ]

\* the closure given to set_callback: configure_ssl_context(conf, &context); Ok(())
Callback(conf, context, cannot) ==
    [ conf |-> configure_ssl_context(conf, context, cannot), result |-> "Ok" ]

\* a bug: the callback works on one configuration object kept with the
\* connector, not on the connection's own
Connect_shared_conf(c, cannot) ==
    /\ pc[c] = "done"
    /\ Len(conns[c]) < MaxConns
    /\ LET shared == IF conns[c] = << >> THEN FreshConf
                                        ELSE conns[c][Len(conns[c])].conf
           r == Callback(shared, ret[c].http.callback, cannot)
       IN conns' = [conns EXCEPT ![c] =
             Append(@, [ conf |-> r.conf,
                         cannot |-> cannot,
                         result |-> r.result,
                         state |-> IF r.result = "Ok" THEN "handshake"
                                                      ELSE "aborted" ])]
    /\ UNCHANGED << pc, ctx, steps, builder, value, session, raised, ret, pskRequested, wrapVars >>
    /\ UNCHANGED cellVars

\* a connection is made through call c's connector
Connect(c, cannot) ==
    /\ pc[c] = "done"
    /\ Len(conns[c]) < MaxConns
    /\ LET r == Callback(FreshConf, ret[c].http.callback, cannot)
       IN conns' = [conns EXCEPT ![c] =
             Append(@, [ conf |-> r.conf,
                         cannot |-> cannot,
                         result |-> r.result,
                         state |-> IF r.result = "Ok" THEN "handshake"
                                                      ELSE "aborted" ])]
    /\ UNCHANGED << pc, ctx, steps, builder, value, session, raised, ret, pskRequested, wrapVars >>
    /\ UNCHANGED cellVars

\* what the engine cannot apply on a connection: nothing, one step, or
\* every step
EngineOutcomes ==
    { {} } \cup { { s } : s \in FinalSteps } \cup { FinalSteps }

\* what the engine cannot apply on the connections of racing calls
RacingCannot == { {} }

\* the errors the engine answers racing calls with
RacingErrors == { "E1" }

(***************************************************************************)
(* Specifications.                                                         *)
(***************************************************************************)
\* a step of the body of call c, run by the executor
Step(c, errs) ==
    \/ BuilderFn(c, errs)
    \/ ConfigureAlpn(c, errs)
    \/ ConfigureCert(c, errs)
    \/ Gate(c)
    \/ CheckInitialized(c)
    \/ Acquire(c)
    \/ RunInitializer(c)
    \/ SetValue(c)
    \/ Wake(c)
    \/ WithConnectorAndSettings(c, errs)
    \/ WithConnector(c, errs)
    \/ SetCallback(c)

\* NumCalls call slots on one wrapper, their calls racing
Next ==
    \E c \in Calls :
        \/ \E context \in RacingContexts : Invoke(c, context)
        \/ Step(c, RacingErrors)
        \/ Cancel(c)
        \/ Release(c)
        \/ \E cannot \in RacingCannot : Connect(c, cannot)

Spec == Init /\ [][Next]_vars

\* the executor polls every call that can run
FairSpec == Spec /\ \A c \in Calls : WF_vars(Step(c, RacingErrors))

\* one call at a time on the wrapper, with every context and engine outcome
NextAll ==
    \/ \E context \in ImpersonateContext : Invoke(1, context)
    \/ BuilderFn(1, Errors)
    \/ ConfigureAlpn(1, Errors)
    \/ ConfigureCert(1, Errors)
    \/ Gate(1)
    \/ CheckInitialized(1)
    \/ Acquire(1)
    \/ RunInitializer(1)
    \/ SetValue(1)
    \/ WithConnectorAndSettings(1, Errors)
    \/ WithConnector(1, Errors)
    \/ SetCallback(1)
    \/ Cancel(1)
    \/ Release(1)
    \/ \E cannot \in EngineOutcomes : Connect(1, cannot)

SpecAll == Init /\ [][NextAll]_vars

\* several wrappers and clones, one call at a time through any of them
NextWrappers ==
    \/ \E headers \in HeaderInputs : GetSettings(headers)
    \/ \E h \in 1..MaxHandles : CloneConnector(h)
    \/ \E h \in 1..MaxHandles, context \in RacingContexts : InvokeOn(1, h, context)
    \/ BuilderFn(1, RacingErrors)
    \/ ConfigureAlpn(1, RacingErrors)
    \/ ConfigureCert(1, RacingErrors)
    \/ Gate(1)
    \/ CheckInitialized(1)
    \/ Acquire(1)
    \/ RunInitializer(1)
    \/ SetValue(1)
    \/ WithConnectorAndSettings(1, RacingErrors)
    \/ WithConnector(1, RacingErrors)
    \/ SetCallback(1)
    \/ Release(1)

SpecWrappers == Init /\ [][NextWrappers]_vars

(***************************************************************************)
(* Properties.                                                             *)
(***************************************************************************)
\* the call's context satisfies the gating policy as the specification
\* states it
Gated(c) ==
    ctx[c].impersonate \in PskAllowList \/ ctx[c].pre_shared_key

\* the call has a connector built with resumption
HasResumption(c) ==
    pc[c] \in { "callback", "done" } /\ ret[c].http.resumption

\* the call is past get_or_init
HasSession(c) ==
    pc[c] \in { "have", "callback", "done" } /\ Gated(c)

\* how many times the call has invoked the builder function
BuilderInvocations(c) ==
    Cardinality({ i \in 1..Len(steps[c]) : steps[c][i] = "builder" })

\* the operation the call performed last
LastStep(c) ==
    IF steps[c] = << >> THEN "none" ELSE steps[c][Len(steps[c])]

\* C1: on one wrapper, whatever the interleaving of its create_connector
\* calls, the initializer runs at most once and at most one SessionCache
\* instance exists; every call that obtained the session, and every
\* connector built with resumption, refers to the instance in the cell;
\* and a cell that is set keeps its value for ever.
C1_SingleInitialization ==
    /\ [](/\ Len(caches) <= 1
          /\ cell \in 0..Len(caches)
          /\ \A c \in Calls :
                /\ HasSession(c) => session[c] = cell /\ cell # 0
                /\ HasResumption(c)
                      => ret[c].http.session_cache = cell /\ cell # 0)
    /\ [][cell # 0 => cell' = cell]_vars

\* C1 witness: a call has returned a connector bound to the cache while a
\* call that raced with it on the first use is still queued on the cell
C1_Witness ==
    \E c, d \in Calls :
        /\ c # d
        /\ pc[c] = "done" /\ ret[c].http.resumption
        /\ ret[c].http.session_cache = cell /\ cell # 0
        /\ pc[d] = "waiting"
        /\ Len(caches) = 1

\* C2: with the executor polling every call that can run, a call that has
\* entered get_or_init and is not dropped by its caller returns, and it
\* returns holding the cache of the cell.
C2_NoDeadlock ==
    \A c \in Calls :
        (pc[c] = "get_or_init")
            ~> \/ pc[c] = "cancelled"
               \/ /\ pc[c] \in { "done", "failed" }
                  /\ session[c] = cell /\ cell # 0

\* C2 witness: two calls on the wrapper have both returned a connector
\* bound to the one cache
C2_Witness ==
    \E c, d \in Calls :
        /\ c # d
        /\ pc[c] = "done" /\ pc[d] = "done"
        /\ ret[c].http.resumption /\ ret[d].http.resumption
        /\ ret[c].http.session_cache = cell
        /\ ret[d].http.session_cache = cell
        /\ cell # 0

\* C3: as long as every call made on the wrapper had a profile outside
\* the allow-list and pre_shared_key = false, no SessionCache has been
\* created and the cell is as BoringTlsConnector::new left it.
C3_NoCacheWithoutGate ==
    ~pskRequested =>
        /\ caches = << >>
        /\ cell = 0
        /\ ~sem_closed
        /\ sem_permits = 1

\* C3 witness: a call with a Chrome-family profile outside the allow-list
\* and no flag has returned its connector
C3_Witness ==
    /\ ~pskRequested
    /\ pc[1] = "done"
    /\ profile(ctx[1].impersonate) = "Chrome"
    /\ ~ctx[1].pre_shared_key
    /\ caches = << >>

\* C4: a connector returned by create_connector has resumption, the cache
\* of the cell and capacity 8 exactly when the context's profile is in the
\* allow-list or its pre_shared_key is set; otherwise it has no resumption
\* and no cache, whether or not the cell is set.
C4_ResumptionIffGated ==
    \A c \in Calls :
        pc[c] = "done" =>
            /\ ret[c].tag = "ok"
            /\ ret[c].http.resumption = Gated(c)
            /\ Gated(c) =>
                  /\ ret[c].http.session_cache = cell
                  /\ cell # 0
                  /\ ret[c].http.session_cache_capacity = 8
            /\ ~Gated(c) =>
                  /\ ret[c].http.session_cache = 0
                  /\ ret[c].http.session_cache_capacity = 0

\* C4 witness: a call whose context is not gated has returned a connector
\* without resumption on a wrapper whose cache is initialized
C4_Witness ==
    /\ pc[1] = "done"
    /\ ~Gated(1)
    /\ ~ret[1].http.resumption
    /\ cell # 0

\* the calls the callback makes for a context of the Chrome or Edge family
FamilyCalls(context) ==
    << << "permute_extensions", Setting(context.permute_extensions) >>,
       << "enable_ech_grease", Setting(context.enable_ech_grease) >>,
       << "application_settings", Setting(context.h2) >> >>

\* C5: on every connection the callback makes, for a context of the Chrome
\* or Edge family, exactly the three calls permute_extensions(ctx.
\* permute_extensions), enable_ech_grease(ctx.enable_ech_grease) and
\* application_settings(ctx.h2) on the connection's configuration object;
\* for a context of another family it makes no call and the object is as
\* the transport layer created it.
C5_FamilyGating ==
    \A c \in Calls :
        \A i \in 1..Len(conns[c]) :
            IF profile(ctx[c].impersonate) \in { "Chrome", "Edge" }
            THEN conns[c][i].conf.calls = FamilyCalls(ctx[c])
            ELSE conns[c][i].conf = FreshConf

\* C5 witness: a connection of a Chrome-family context with
\* permute_extensions = true has been finalized, permutation requested
C5_Witness ==
    /\ profile(ctx[1].impersonate) = "Chrome"
    /\ ctx[1].permute_extensions
    /\ Len(conns[1]) >= 1
    /\ conns[1][1].conf.calls[1] = << "permute_extensions", "on" >>
    /\ conns[1][1].conf.permute_extensions = "on"

\* C6: the callback answers Ok on every connection, whatever the context
\* and whatever the engine cannot apply; a step the engine cannot apply
\* leaves its setting as it was, and the connection goes on to the
\* handshake.
C6_CallbackNeverFails ==
    \A c \in Calls :
        \A i \in 1..Len(conns[c]) :
            /\ conns[c][i].result = "Ok"
            /\ conns[c][i].state = "handshake"
            /\ "permute_extensions" \in conns[c][i].cannot
                  => conns[c][i].conf.permute_extensions = "unset"
            /\ "enable_ech_grease" \in conns[c][i].cannot
                  => conns[c][i].conf.enable_ech_grease = "unset"
            /\ "application_settings" \in conns[c][i].cannot
                  => conns[c][i].conf.application_settings = "unset"

\* C6 witness: a connection of a Chrome-family context on which the engine
\* could not add the application settings is in its handshake
C6_Witness ==
    /\ profile(ctx[1].impersonate) = "Chrome"
    /\ Len(conns[1]) >= 1
    /\ conns[1][1].cannot = { "application_settings" }
    /\ conns[1][1].conf.calls = FamilyCalls(ctx[1])
    /\ conns[1][1].state = "handshake"

\* the operations of step 1 and step 2
ConfigurationSteps ==
    { "builder", "cipher_list", "curves", "alpn", "cert_verification" }

\* the construction of the secure connector in step 3
ConstructionSteps ==
    { "with_connector_and_settings", "with_connector" }

\* C7 as stated: a call that returns an error failed in step 1 or step 2.
C7_OnlyConfigurationFails ==
    \A c \in Calls :
        pc[c] = "failed" => LastStep(c) \in ConfigurationSteps

\* C7 amended: a call that returns an error failed in step 1, in step 2 or
\* in the construction of the secure connector (with_connector_and_settings
\* or with_connector, whose error `?` returns); evaluating the gating
\* policy, obtaining the session cache and installing the callback never
\* make the call fail, and a call that fails returns no connector.
C7_ConfigurationOrConstructionFails ==
    \A c \in Calls :
        /\ pc[c] = "failed" =>
              /\ LastStep(c) \in ConfigurationSteps \cup ConstructionSteps
              /\ ret[c].tag = "err"
              /\ ret[c].http = NoConnector
        /\ pc[c] = "done" => ret[c].tag = "ok"

\* C7 witness: a call that had configured its builder and obtained the
\* session cache has failed in with_connector_and_settings
C7_Witness ==
    /\ pc[1] = "failed"
    /\ LastStep(1) = "with_connector_and_settings"
    /\ builder[1].verify # "unset"
    /\ session[1] = cell /\ cell # 0

\* C8: a call invokes the builder function once, never twice; a call that
\* fails returns the very error the failing operation answered with, and
\* returns no connector.
C8_NoRetry ==
    \A c \in Calls :
        /\ BuilderInvocations(c) <= 1
        /\ pc[c] \notin { "idle", "start", "cancelled" }
              => BuilderInvocations(c) = 1
        /\ pc[c] = "failed" =>
              /\ raised[c] \in Errors
              /\ ret[c] = [ tag |-> "err", err |-> raised[c],
                            http |-> NoConnector ]

\* C8 witness: the builder function failed in configure_cipher_list with E2
\* and the call returned E2
C8_Witness ==
    /\ pc[1] = "failed"
    /\ steps[1] = << "builder", "cipher_list" >>
    /\ raised[1] = "E2"
    /\ ret[1].err = "E2"

\* the cell and its semaphore are in one of their two sound states
CellSound ==
    /\ Len(caches) <= 1
    /\ \/ cell = 0 /\ ~sem_closed
       \/ cell = 1 /\ Len(caches) = 1 /\ sem_closed /\ waiters = {}
    /\ waiters \subseteq { c \in Calls : pc[c] = "waiting" }
    /\ ~sem_closed =>
          sem_permits + Cardinality({ c \in Calls : pc[c] \in { "init", "set" } }) = 1

\* C9: dropping calls that wait on the cell leaves the cell either not set
\* or set, with no dropped call left on its queue and its permit not lost;
\* at most one cache is created, every call that has the session has the
\* cell's; and (the executor polling every call that can run) every call
\* queued on the cell that is not itself dropped gets the cell's cache.
C9_CancellationSafe ==
    /\ [](/\ CellSound
          /\ \A c \in Calls : HasSession(c) => session[c] = cell /\ cell # 0)
    /\ \A c \in Calls :
          (pc[c] = "waiting")
              ~> \/ pc[c] = "cancelled"
                 \/ pc[c] = "have" /\ session[c] = cell /\ cell # 0

\* C9 witness: a call was dropped while it waited on the cell, and another
\* call has returned a connector bound to the cell's cache
C9_Witness ==
    \E c, d \in Calls :
        /\ c # d
        /\ pc[c] = "cancelled" /\ LastStep(c) = "get_or_init"
        /\ pc[d] = "done" /\ ret[d].http.resumption
        /\ ret[d].http.session_cache = cell /\ cell = 1
        /\ Len(caches) = 1

\* C11: the ALPN list of a returned connector is << h2, http/1.1 >> when
\* the context's h2 is true and << http/1.1 >> when it is false, whatever
\* the profile and the other flags.
C11_AlpnFollowsH2 ==
    \A c \in Calls :
        pc[c] = "done" =>
            ret[c].http.ssl.alpn =
                IF ctx[c].h2 THEN << "h2", "http/1.1" >> ELSE << "http/1.1" >>

\* C11 witness: a connector that offers http/1.1 only was returned for a
\* context with every other flag set
C11_Witness ==
    /\ pc[1] = "done"
    /\ ~ctx[1].h2
    /\ ctx[1].certs_verification /\ ctx[1].pre_shared_key
    /\ ctx[1].permute_extensions /\ ctx[1].enable_ech_grease
    /\ ret[1].http.ssl.alpn = << "http/1.1" >>

\* C12: a returned connector goes on with a server certificate that is
\* self-signed or invalid exactly when the context's certs_verification is
\* false, and with a trusted one always; no profile and no other flag
\* changes this.
C12_VerificationFollowsFlag ==
    \A c \in Calls :
        pc[c] = "done" =>
            /\ ret[c].http.ssl.verify =
                  (IF ctx[c].certs_verification THEN "PEER" ELSE "NONE")
            /\ \A certificate \in ServerCertificates :
                  HandshakeAccepts(ret[c].http.ssl, certificate)
                      <=> (certificate = "trusted" \/ ~ctx[c].certs_verification)

\* C12 witness: a connector of a context with certs_verification = true and
\* every other flag false refuses a self-signed certificate
C12_Witness ==
    /\ pc[1] = "done"
    /\ ctx[1].certs_verification
    /\ ~ctx[1].h2 /\ ~ctx[1].pre_shared_key
    /\ ~ctx[1].permute_extensions /\ ~ctx[1].enable_ech_grease
    /\ ~HandshakeAccepts(ret[1].http.ssl, "self_signed")

\* the handshake-shaping steps, in the order of the pipeline
HandshakeSteps == << "cipher_list", "curves", "alpn", "cert_verification" >>

\* the handshake-shaping steps call c has performed, in the order it
\* performed them
Shaping(c) ==
    SelectSeq(steps[c],
              LAMBDA s : s \in { HandshakeSteps[i] : i \in 1..Len(HandshakeSteps) })

\* C14: the handshake-shaping steps a call has performed are always the
\* first k steps of (cipher list, curves, ALPN, certificate verification),
\* in that order, on a builder the call created first; the policy of a
\* step is on the builder only if every earlier step is; and a call that
\* has failed performs no further step.
C14_PipelineOrder ==
    /\ [](\A c \in Calls :
            /\ Shaping(c) = SubSeq(HandshakeSteps, 1, Len(Shaping(c)))
            /\ Shaping(c) # << >> => steps[c][1] = "builder"
            /\ builder[c].curves => builder[c].cipher_list
            /\ builder[c].alpn # << >> => builder[c].curves
            /\ pc[c] \in { "gate", "get_or_init", "plain" }
                  => Shaping(c) = HandshakeSteps /\ builder[c].alpn # << >>)
    /\ [][\A c \in Calls :
            pc[c] = "failed" => steps'[c] = steps[c] \/ pc'[c] = "idle"]_vars

\* C14 witness: the ALPN step failed after the cipher list and the curves,
\* and certificate verification was not configured
C14_Witness ==
    /\ pc[1] = "failed"
    /\ steps[1] = << "builder", "cipher_list", "curves", "alpn" >>
    /\ builder[1].cipher_list /\ builder[1].curves
    /\ builder[1].alpn = << >>

\* the value a finalization step leaves in a connection's configuration
\* object: the flag of the connector's context, unless the family is not
\* finalized or the engine could not apply the step on this connection
Finalized(c, conn, step, flag) ==
    IF /\ profile(ret[c].http.callback.impersonate) \in { "Chrome", "Edge" }
       /\ step \notin conn.cannot
    THEN Setting(flag)
    ELSE "unset"

\* C15: no create_connector call performs a finalization step, so the
\* builder a connector is made of never carries one; every connection has
\* a configuration object of its own, on which each finalization step was
\* performed at most once, before its handshake, and whose settings depend
\* on the connector's context and on this connection alone; and making a
\* connection leaves the configuration objects of the connector's earlier
\* connections as they were.
C15_TwoPhase ==
    /\ [](\A c \in Calls :
            /\ \A i \in 1..Len(steps[c]) : steps[c][i] \notin FinalSteps
            /\ \A i \in 1..Len(conns[c]) :
                  LET conn == conns[c][i]
                      context == ret[c].http.callback
                  IN /\ conn.state = "handshake"
                     /\ Len(conn.conf.calls) \in { 0, 3 }
                     /\ conn.conf.permute_extensions =
                           Finalized(c, conn, "permute_extensions",
                                     context.permute_extensions)
                     /\ conn.conf.enable_ech_grease =
                           Finalized(c, conn, "enable_ech_grease",
                                     context.enable_ech_grease)
                     /\ conn.conf.application_settings =
                           Finalized(c, conn, "application_settings", context.h2))
    /\ [][\A c \in Calls :
            Len(conns'[c]) >= Len(conns[c])
                => SubSeq(conns'[c], 1, Len(conns[c])) = conns[c]]_vars

\* C15 witness: two connections of one Chrome-family connector with
\* permute_extensions = true; the engine could apply nothing on the first
\* and everything on the second, and the first is still unset
C15_Witness ==
    /\ pc[1] = "done"
    /\ profile(ctx[1].impersonate) = "Chrome"
    /\ ctx[1].permute_extensions
    /\ Len(conns[1]) = 2
    /\ conns[1][1].cannot = FinalSteps
    /\ conns[1][1].conf.permute_extensions = "unset"
    /\ conns[1][2].cannot = {}
    /\ conns[1][2].conf.permute_extensions = "on"

\* where a call is inside get_or_init
InGetOrInit == { "get_or_init", "acquire", "waiting", "init", "set" }

\* where a call is running the body of create_connector
Running ==
    { "start", "alpn", "cert", "gate", "plain", "get_or_init", "acquire",
      "init", "set", "have", "callback" }

\* C16: a call whose context is not gated never enters get_or_init, so it
\* never waits on the cell; a call suspends only in get_or_init's acquire,
\* and only while the cell is not set and another call holds the permit;
\* a call that reaches get_or_init when the cell is set takes the value at
\* once; and everywhere else in the body the call's next step can be
\* taken, whatever the other calls are doing.
C16_OneSuspensionPoint ==
    /\ [](\A c \in Calls :
            /\ ~Gated(c) =>
                  /\ pc[c] \notin InGetOrInit \cup { "have" }
                  /\ \A i \in 1..Len(steps[c]) : steps[c][i] # "get_or_init"
            /\ pc[c] = "waiting" /\ ~sem_closed =>
                  /\ cell = 0
                  /\ \E d \in Calls \ { c } : pc[d] \in { "init", "set" }
            /\ pc[c] \in Running => ENABLED Step(c, RacingErrors))
    /\ [][\A c \in Calls :
            /\ pc'[c] = "waiting" /\ pc[c] # "waiting"
                  => pc[c] = "acquire" /\ cell = 0
            /\ pc[c] = "get_or_init" /\ cell # 0 /\ pc'[c] # pc[c]
                  => pc'[c] = "have" /\ session'[c] = cell]_vars

\* C16 witness: a call that is not gated has returned its connector while
\* another call is in the middle of the initializer
C16_Witness ==
    \E c, d \in Calls :
        /\ pc[c] = "done" /\ ~Gated(c)
        /\ ~ret[c].http.resumption
        /\ pc[d] = "set" /\ cell = 0

\* C19: a call that failed in the builder function, the ALPN step or the
\* certificate step has not evaluated the gating policy, has not entered
\* get_or_init and holds nothing of the cell; and no step a call takes
\* before the gating policy changes the cell, its semaphore, its queue or
\* the caches: a cell that is not set stays so, a cell that is set keeps
\* its instance.
C19_FailureLeavesWrapper ==
    /\ [](\A c \in Calls :
            pc[c] = "failed" /\ LastStep(c) \in ConfigurationSteps =>
                /\ \A i \in 1..Len(steps[c]) :
                      steps[c][i] \notin { "gate", "get_or_init" }
                /\ value[c] = 0 /\ session[c] = 0
                /\ c \notin waiters)
    /\ [][\A c \in Calls :
            pc[c] \in { "start", "alpn", "cert" } /\ pc'[c] # pc[c]
                => cellVars' = cellVars]_vars

\* C19 witness: a call has failed in the ALPN step on a wrapper whose cell
\* is set, and another call's connector is bound to the cell's cache
C19_Witness ==
    \E c, d \in Calls :
        /\ pc[c] = "failed" /\ LastStep(c) = "alpn"
        /\ pc[d] = "done" /\ ret[d].http.resumption
        /\ ret[d].http.session_cache = cell /\ cell = 1
        /\ Len(caches) = 1

\* C20: the context of a call is the same from the call's invocation until
\* the caller lets go of its result; the callback of a returned connector
\* holds the values the context had in the call, and keeps them; and every
\* connection of the connector is finalized with those values, whatever
\* the contexts of the other calls on the wrapper.
C20_ContextSnapshot ==
    /\ [](\A c \in Calls :
            pc[c] = "done" =>
                /\ ret[c].http.callback = ctx[c]
                /\ \A i \in 1..Len(conns[c]) :
                      conns[c][i].conf.calls =
                          IF profile(ret[c].http.callback.impersonate)
                                 \in { "Chrome", "Edge" }
                          THEN FamilyCalls(ret[c].http.callback)
                          ELSE << >>)
    /\ [][\A c \in Calls :
            /\ pc[c] # "idle" /\ pc'[c] # "idle" => ctx'[c] = ctx[c]
            /\ pc[c] = "done" /\ pc'[c] = "done"
                  => ret'[c].http.callback = ret[c].http.callback]_vars

\* C20 witness: two connections of a Cronet connector are finalized with
\* the Cronet context while a call with an OkHttp context on the same
\* wrapper has returned a connector whose connection is not finalized
C20_Witness ==
    \E c, d \in Calls :
        /\ pc[c] = "done" /\ ctx[c].impersonate = "Cronet"
        /\ Len(conns[c]) = 2
        /\ conns[c][1].conf.calls = FamilyCalls(ctx[c])
        /\ conns[c][2].conf.calls = FamilyCalls(ctx[c])
        /\ pc[d] = "done" /\ ctx[d].impersonate = "OkHttp5"
        /\ Len(conns[d]) >= 1
        /\ conns[d][1].conf = FreshConf

\* the SETTINGS parameters of the Cronet profile
CronetFrame ==
    { << "initial_stream_window_size", 6291456 >>,
      << "initial_connection_window_size", 15728640 >>,
      << "max_header_list_size", 262144 >>,
      << "header_table_size", 65536 >>,
      << "enable_push", FALSE >> }

\* C13: every record get_settings has returned, whatever the headers it
\* was given and whatever get_settings and create_connector calls were made
\* before, has the same HTTP/2 settings: 6291456, 15728640, 262144, 65536,
\* enable_push false, and max_concurrent_streams not set, which is not the
\* value zero and is not among the SETTINGS parameters written; and a
\* get_settings call changes nothing it did not create.
C13_SettingsMapper ==
    /\ [](\A i \in 1..Len(settingsLog) :
            LET http2 == settingsLog[i].http2
            IN /\ http2.initial_stream_window_size = << 6291456 >>
               /\ http2.initial_connection_window_size = << 15728640 >>
               /\ http2.max_header_list_size = << 262144 >>
               /\ http2.header_table_size = << 65536 >>
               /\ http2.enable_push = << FALSE >>
               /\ http2.max_concurrent_streams = << >>
               /\ http2.max_concurrent_streams # << 0 >>
               /\ SettingsFrame(http2) = CronetFrame
               /\ \A param \in SettingsFrame(http2) :
                     param[1] # "max_concurrent_streams"
               /\ \A j \in 1..Len(settingsLog) : settingsLog[j].http2 = http2)
    /\ [][Len(settingsLog') > Len(settingsLog) =>
            /\ SubSeq(settingsLog', 1, Len(settingsLog)) = settingsLog
            /\ SubSeq(handles', 1, Len(handles)) = handles
            /\ SubSeq(cells', 1, Len(cells)) = cells
            /\ UNCHANGED << callVars, cellVars >>]_vars

\* C13 witness: get_settings was called with different headers before and
\* after a session cache was created, and returned different header maps
C13_Witness ==
    /\ Len(settingsLog) = 3
    /\ settingsLog[2].headers # settingsLog[3].headers
    /\ settingsLog[3].tls_connector.session = 3
    /\ cells[3] = FreshCell
    /\ Len(caches) = 1 /\ cell = 1

\* the value of the OnceCell behind Arc i
CellValue(i) == IF i = focus THEN cell ELSE cells[i].value

\* the same, in the next state
CellValueNext(i) == IF i = focus' THEN cell' ELSE cells'[i].value

\* C18: the wrappers of separate get_settings calls have different cells,
\* and different cells never hold the same cache; a connector built with
\* resumption refers to the cache in the cell of the handle its call was
\* made through; a clone refers to the cell of the handle it was cloned
\* from, and no cell is created for it; and the value of a cell changes
\* only from not set, by a call made through a handle that refers to that
\* cell, so initializing one wrapper's cache leaves every other cell as it
\* was.
C18_CacheSharing ==
    /\ [](/\ \A i, j \in 1..Len(settingsLog) :
                i # j => settingsLog[i].tls_connector.session
                             # settingsLog[j].tls_connector.session
          /\ \A h \in 1..Len(handles) : handles[h].session \in 1..Len(cells)
          /\ \A i, j \in 1..Len(cells) :
                i # j /\ CellValue(i) # 0 => CellValue(i) # CellValue(j)
          /\ \A c \in Calls :
                HasResumption(c) =>
                    /\ ret[c].http.session_cache # 0
                    /\ ret[c].http.session_cache
                           = CellValue(handles[via[c]].session))
    /\ [][/\ Len(handles') > Len(handles) /\ Len(settingsLog') = Len(settingsLog)
               => /\ \E h \in 1..Len(handles) :
                        handles'[Len(handles')] = handles[h]
                  /\ Len(cells') = Len(cells)
          /\ \A i \in 1..Len(cells) :
                CellValueNext(i) # CellValue(i)
                    => /\ CellValue(i) = 0
                       /\ \E c \in Calls :
                             /\ pc[c] = "set"
                             /\ handles[via[c]].session = i]_vars

\* C18 witness: a call through a clone of the first wrapper has returned a
\* connector bound to the cache an earlier call created in the first
\* wrapper's cell, and the cell of the second wrapper is not set
C18_Witness ==
    /\ Len(handles) = 3
    /\ handles[3] = handles[1]
    /\ handles[2].session # handles[1].session
    /\ pc[1] = "done" /\ via[1] = 3
    /\ value[1] = 0
    /\ ret[1].http.resumption
    /\ ret[1].http.session_cache = CellValue(handles[1].session)
    /\ Len(caches) = 1
    /\ CellValue(handles[2].session) = 0

====
